---- MODULE Spec2Model ----
(***************************************************************************)
(* services/api/project/__init__.py: a Flask application whose module top  *)
(* level opens a Postgres handle, runs CREATE TABLE and one INSERT, and    *)
(* whose single route /users returns connection.all('SELECT * FROM users') *)
(* through jsonify.                                                        *)
(*                                                                         *)
(* The database outlives the process: `tables`, `users` and `xid` are the  *)
(* persistent state, everything else belongs to one process lifetime.      *)
(***************************************************************************)
EXTENDS Integers, Sequences, FiniteSets, Bags, TLC

\* Bounds of the model.
MaxStarts == 3
MaxRequests == 2

\* Python's None, and the one well-formed connection string of the model.
None == "None"
Url == "postgresql://db/users"

\* The literal of the INSERT statement (line 10).
Seed == "maggie simpson"

Requests == 1 .. MaxRequests

VARIABLES
    environ,                  \* os.environ of the running process
    dbUp,                     \* the database server accepts connections
    tables,                   \* persistent: names of the existing tables
    users,                    \* persistent: rows of table users, in heap order
    xid,                      \* persistent: number of committed transactions
    pc,                       \* position of the process in the module top level
    SQLALCHEMY_DATABASE_URI,  \* module global (line 6)
    connection,               \* module global (line 7)
    log,                      \* statements the current process has issued
    starts,                   \* process starts so far
    faults,                   \* starts that failed for the environment's sake
    reqs                      \* per client request: its progress and response

vars == <<environ, dbUp, tables, users, xid, pc, SQLALCHEMY_DATABASE_URI,
          connection, log, starts, faults, reqs>>

db == <<tables, users, xid>>
proc == <<SQLALCHEMY_DATABASE_URI, connection>>

----------------------------------------------------------------------------
\* JSON values, as flask.jsonify serialises Python values.

JString(s) == [type |-> "string", val |-> s]
JArray(items) == [type |-> "array", items |-> items]
JObject(members) == [type |-> "object", members |-> members]
Member(k, v) == [key |-> k, value |-> v]
NoBody == [type |-> "none"]

\* A row as psycopg2 hands it to postgres.py: one field per column.
Record(name) == [name |-> name]

\* The environments a process can be started in.
Environments == { [k \in {} |-> None], [DATABASE_URL |-> Url] }

\* os.environ.get(key): the value, or None when the key is absent.
EnvironGet(env, key) == IF key \in DOMAIN env THEN env[key] ELSE None

\* All orders in which a SELECT without ORDER BY may return the rows.
Orderings(rows) ==
    LET n == Len(rows)
        bij == { p \in [1 .. n -> 1 .. n] : \A i, j \in 1 .. n : p[i] = p[j] => i = j }
    IN  { [i \in 1 .. n |-> rows[p[i]]] : p \in bij }

\* postgres.py unwraps the records of a single-column result to their value.
Dereference(rows) == [i \in 1 .. Len(rows) |-> rows[i].name]

\* Mutant of all: a failed fetch is swallowed and reads as an empty result.
all_swallowing(rows) == { Dereference(o) : o \in Orderings(rows) } \cup { <<>> }

\* connection.all('SELECT * FROM users;'): the possible return values.
all(rows) == { Dereference(o) : o \in Orderings(rows) }

\* jsonify({'users': users}): dict -> object, list -> array, str -> string.
jsonify(result) ==
    JObject(<<Member("users", JArray([i \in 1 .. Len(result) |-> JString(result[i])]))>>)

Entry(op, err) == [op |-> op, err |-> err]

NoRequest == [state |-> "none", status |-> 0, body |-> NoBody,
              xid |-> 0, queries |-> 0, failed |-> FALSE, by |-> 0]

----------------------------------------------------------------------------
Init ==
    /\ environ = [k \in {} |-> None]
    /\ dbUp \in BOOLEAN
    /\ tables = {}
    /\ users = <<>>
    /\ xid = 0
    /\ pc = "stopped"
    /\ SQLALCHEMY_DATABASE_URI = None
    /\ connection = None
    /\ log = <<>>
    /\ starts = 0
    /\ faults = 0
    /\ reqs = [r \in Requests |-> NoRequest]

\* The uncaught exception of a module-level statement ends the process.
Crash(entry, fault) ==
    /\ pc' = "crashed"
    /\ log' = Append(log, entry)
    /\ faults' = faults + fault

\* The interpreter starts executing the module (lines 1-5) in some environment.
\* Requests the previous process had not answered are lost with it.
Start ==
    /\ pc \in {"stopped", "crashed"}
    /\ starts < MaxStarts
    /\ \E env \in Environments : environ' = env
    /\ pc' = "line6"
    /\ starts' = starts + 1
    /\ SQLALCHEMY_DATABASE_URI' = None
    /\ connection' = None
    /\ log' = <<>>
    /\ UNCHANGED <<dbUp, db, faults, reqs>>

\* Line 6: SQLALCHEMY_DATABASE_URI = os.environ.get('DATABASE_URL')
ReadEnv ==
    /\ pc = "line6"
    /\ SQLALCHEMY_DATABASE_URI' = EnvironGet(environ, "DATABASE_URL")
    /\ pc' = "line7"
    /\ UNCHANGED <<environ, dbUp, db, connection, log, starts, faults, reqs>>

\* Mutant of Connect: the handle connects lazily, so the constructor never raises.
Connect_lazy ==
    /\ pc = "line7"
    /\ connection' = "open"
    /\ pc' = "line9"
    /\ log' = Append(log, Entry("connect", None))
    /\ UNCHANGED <<environ, dbUp, db, SQLALCHEMY_DATABASE_URI, starts, faults, reqs>>

\* Line 7: connection = Postgres(SQLALCHEMY_DATABASE_URI). The constructor fills
\* its pool, so it raises without a connection string or without a server.
Connect ==
    /\ pc = "line7"
    /\ IF SQLALCHEMY_DATABASE_URI = None
       THEN Crash(Entry("connect", "TypeError"), 1) /\ UNCHANGED connection
       ELSE IF ~dbUp
       THEN Crash(Entry("connect", "OperationalError"), 1) /\ UNCHANGED connection
       ELSE /\ connection' = "open"
            /\ pc' = "line9"
            /\ log' = Append(log, Entry("connect", None))
            /\ UNCHANGED faults
    /\ UNCHANGED <<environ, dbUp, db, SQLALCHEMY_DATABASE_URI, starts, reqs>>

\* Mutant of CreateTable: the statement's exception is caught and startup goes on.
CreateTable_ignoring ==
    /\ pc = "line9"
    /\ IF ~dbUp \/ "users" \in tables
       THEN /\ pc' = "line10"
            /\ log' = Append(log, Entry("create", "Ignored"))
            /\ UNCHANGED <<db, faults>>
       ELSE /\ tables' = tables \cup {"users"}
            /\ users' = <<>>
            /\ xid' = xid + 1
            /\ pc' = "line10"
            /\ log' = Append(log, Entry("create", None))
            /\ UNCHANGED faults
    /\ UNCHANGED <<environ, dbUp, proc, starts, reqs>>

\* Line 9: connection.run("CREATE TABLE users (name text)")
CreateTable ==
    /\ pc = "line9"
    /\ IF ~dbUp
       THEN Crash(Entry("create", "OperationalError"), 1) /\ UNCHANGED db
       ELSE IF "users" \in tables
       THEN Crash(Entry("create", "DuplicateTable"), 0) /\ UNCHANGED db
       ELSE /\ tables' = tables \cup {"users"}
            /\ users' = <<>>
            /\ xid' = xid + 1
            /\ pc' = "line10"
            /\ log' = Append(log, Entry("create", None))
            /\ UNCHANGED faults
    /\ UNCHANGED <<environ, dbUp, proc, starts, reqs>>

\* Mutant of InsertSeed: the seed statement is left out.
InsertSeed_skipped ==
    /\ pc = "line10"
    /\ pc' = "line17"
    /\ log' = Append(log, Entry("insert", None))
    /\ UNCHANGED <<environ, dbUp, db, proc, starts, faults, reqs>>

\* Line 10: connection.run("INSERT INTO users VALUES ('maggie simpson')")
InsertSeed ==
    /\ pc = "line10"
    /\ IF ~dbUp
       THEN Crash(Entry("insert", "OperationalError"), 1) /\ UNCHANGED db
       ELSE IF "users" \notin tables
       THEN Crash(Entry("insert", "UndefinedTable"), 0) /\ UNCHANGED db
       ELSE /\ users' = Append(users, Record(Seed))
            /\ xid' = xid + 1
            /\ pc' = "line17"
            /\ log' = Append(log, Entry("insert", None))
            /\ UNCHANGED <<tables, faults>>
    /\ UNCHANGED <<environ, dbUp, proc, starts, reqs>>

\* Lines 17-18: app.run(debug=True) binds the port and serves.
AppRun ==
    /\ pc = "line17"
    /\ pc' = "serving"
    /\ log' = Append(log, Entry("serve", None))
    /\ UNCHANGED <<environ, dbUp, db, proc, starts, faults, reqs>>

\* A client sends GET /users to the bound port.
Get(r) ==
    /\ pc = "serving"
    /\ reqs[r].state # "pending"
    /\ reqs' = [reqs EXCEPT ![r] = [NoRequest EXCEPT !.state = "pending"]]
    /\ UNCHANGED <<environ, dbUp, db, pc, proc, log, starts, faults>>

\* Mutant of index: the view inserts a row before it lists them.
index_writing(r) ==
    /\ pc = "serving"
    /\ reqs[r].state = "pending"
    /\ IF dbUp
       THEN /\ users' = Append(users, Record(Seed))
            /\ xid' = xid + 1
            /\ \E result \in all(users') :
                  reqs' = [reqs EXCEPT ![r] =
                      [state |-> "done", status |-> 200, body |-> jsonify(result),
                       xid |-> xid', queries |-> 1, failed |-> FALSE, by |-> starts]]
       ELSE /\ reqs' = [reqs EXCEPT ![r] =
                      [state |-> "done", status |-> 500, body |-> NoBody,
                       xid |-> xid, queries |-> 1, failed |-> TRUE, by |-> starts]]
            /\ UNCHANGED <<users, xid>>
    /\ UNCHANGED <<environ, dbUp, tables, pc, proc, log, starts, faults>>

\* Mutant of index: the query's exception is caught and an empty listing returned.
index_swallowing(r) ==
    /\ pc = "serving"
    /\ reqs[r].state = "pending"
    /\ IF dbUp
       THEN \E result \in all(users) :
                reqs' = [reqs EXCEPT ![r] =
                    [state |-> "done", status |-> 200, body |-> jsonify(result),
                     xid |-> xid, queries |-> 1, failed |-> FALSE, by |-> starts]]
       ELSE reqs' = [reqs EXCEPT ![r] =
                    [state |-> "done", status |-> 200, body |-> jsonify(<<>>),
                     xid |-> xid, queries |-> 1, failed |-> TRUE, by |-> starts]]
    /\ UNCHANGED <<environ, dbUp, db, pc, proc, log, starts, faults>>

\* Lines 12-15: the view function. One query; its exception is not caught, so
\* Flask answers 500; otherwise the query's result goes through jsonify.
index(r) ==
    /\ pc = "serving"
    /\ reqs[r].state = "pending"
    /\ IF dbUp
       THEN \E result \in all(users) :
                reqs' = [reqs EXCEPT ![r] =
                    [state |-> "done", status |-> 200, body |-> jsonify(result),
                     xid |-> xid, queries |-> 1, failed |-> FALSE, by |-> starts]]
       ELSE reqs' = [reqs EXCEPT ![r] =
                    [state |-> "done", status |-> 500, body |-> NoBody,
                     xid |-> xid, queries |-> 1, failed |-> TRUE, by |-> starts]]
    /\ UNCHANGED <<environ, dbUp, db, pc, proc, log, starts, faults>>

\* app.run returns when the server is interrupted; the process exits and the
\* requests it had not answered are dropped.
Stop ==
    /\ pc = "serving"
    /\ pc' = "stopped"
    /\ reqs' = [r \in Requests |->
                  IF reqs[r].state = "pending" THEN NoRequest ELSE reqs[r]]
    /\ UNCHANGED <<environ, dbUp, db, proc, log, starts, faults>>

\* The database server goes away, or comes back.
DbDown ==
    /\ dbUp
    /\ dbUp' = FALSE
    /\ UNCHANGED <<environ, db, pc, proc, log, starts, faults, reqs>>

DbUp ==
    /\ ~dbUp
    /\ dbUp' = TRUE
    /\ UNCHANGED <<environ, db, pc, proc, log, starts, faults, reqs>>

Next ==
    \/ Start
    \/ ReadEnv
    \/ Connect
    \/ CreateTable
    \/ InsertSeed
    \/ AppRun
    \/ \E r \in Requests : Get(r)
    \/ \E r \in Requests : index(r)
    \/ Stop
    \/ DbDown
    \/ DbUp

Spec == Init /\ [][Next]_vars

----------------------------------------------------------------------------
\* Helpers of the properties.

Last(s) == s[Len(s)]

IsPrefix(s, t) == Len(s) <= Len(t) /\ \A i \in 1 .. Len(s) : s[i] = t[i]

SeqToBag(s) ==
    [v \in { s[i] : i \in 1 .. Len(s) } |-> Cardinality({ i \in 1 .. Len(s) : s[i] = v })]

\* The requests answered with a body.
Answered200 == { r \in Requests : reqs[r].state = "done" /\ reqs[r].status = 200 }

\* The elements of the array under the body's first member.
ItemsOf(body) == body.members[1].value.items

IsNameObject(v) ==
    /\ v.type = "object"
    /\ Len(v.members) = 1
    /\ v.members[1].key = "name"
    /\ v.members[1].value.type = "string"

\* The name an element of the listing carries, bare or under the key name.
NameOf(v) == IF v.type = "string" THEN v.val ELSE v.members[1].value.val

IndexStep == \E r \in Requests : reqs[r].state = "pending" /\ reqs'[r].state = "done"

StartupOrder ==
    <<Entry("connect", None), Entry("create", None),
      Entry("insert", None), Entry("serve", None)>>

SeedRows == Len(SelectSeq(users, LAMBDA row : row = Record(Seed)))

----------------------------------------------------------------------------
\* C1 (P2, shape): every 200 body of GET /users is an object with exactly one
\* key users, whose value is an array of objects, each with exactly one key
\* name holding a string.
C1_ResponseShape ==
    \A r \in Answered200 :
        LET b == reqs[r].body
        IN  /\ b.type = "object"
            /\ Len(b.members) = 1
            /\ b.members[1].key = "users"
            /\ b.members[1].value.type = "array"
            /\ \A i \in 1 .. Len(ItemsOf(b)) : IsNameObject(ItemsOf(b)[i])

\* C2 (P1, seed visibility): every listing a serving process returns holds at
\* least one element whose name is "maggie simpson".
C2_SeedVisible ==
    \A r \in Answered200 :
        \E i \in 1 .. Len(ItemsOf(reqs[r].body)) :
            NameOf(ItemsOf(reqs[r].body)[i]) = Seed

C2_Witness ==
    /\ pc = "serving"
    /\ \E r \in Answered200 : reqs[r].by = starts /\ Len(ItemsOf(reqs[r].body)) = 1

\* C3 (P4, startup dependency): a process started without DATABASE_URL never
\* gets past line 7, a process whose database is unreachable at line 7 crashes
\* there, and no request is answered by a process without DATABASE_URL.
C3_StartupDependency ==
    /\ []("DATABASE_URL" \notin DOMAIN environ
            => pc \notin {"line9", "line10", "line17", "serving"})
    /\ [][(pc = "line7" /\ ~dbUp /\ pc' # pc) => pc' = "crashed"]_vars
    /\ [](\A r \in Requests :
            (reqs[r].state = "done" /\ reqs[r].by = starts)
                => "DATABASE_URL" \in DOMAIN environ)

C3_Witness ==
    /\ pc = "crashed"
    /\ "DATABASE_URL" \notin DOMAIN environ
    /\ log = <<Entry("connect", "TypeError")>>
    /\ dbUp

\* C4 (restart): the CREATE TABLE step of a second or later start against the
\* database of an earlier start does not crash the process.
C4_RestartCreateDoesNotCrash ==
    ~(starts >= 2 /\ pc = "crashed" /\ Last(log) = Entry("create", "DuplicateTable"))

\* C5 (fresh database): after the first start against an empty database the
\* table exists, holds exactly the seed row, and GET /users returns exactly
\* {"users": [{"name": "maggie simpson"}]}.
C5_FreshDatabaseScenario ==
    (starts = 1 /\ pc = "serving") =>
        /\ tables = {"users"}
        /\ users = <<Record(Seed)>>
        /\ \A r \in Answered200 :
              reqs[r].body =
                  JObject(<<Member("users",
                      JArray(<<JObject(<<Member("name", JString(Seed))>>)>>))>>)

\* C6 (P5, no mutation via read): a step of the view function leaves the
\* tables and their rows as they were, and no step of the system removes or
\* rewrites a row.
C6_NoMutationViaRead ==
    [][(IndexStep => (tables' = tables /\ users' = users /\ xid' = xid))
         /\ IsPrefix(users, users')]_vars

C6_Witness ==
    /\ pc = "serving"
    /\ users = <<Record(Seed)>>
    /\ \E r, q \in Requests :
          /\ reqs[r].state = "done" /\ reqs[r].by = starts
          /\ reqs[q].state = "pending"

\* C7 (P3, idempotent read): two listings with no commit between their
\* queries hold the same multiset of elements.
C7_IdempotentRead ==
    \A r, q \in Answered200 :
        reqs[r].xid = reqs[q].xid
            => SeqToBag(ItemsOf(reqs[r].body)) = SeqToBag(ItemsOf(reqs[q].body))

C7_Witness ==
    \E r, q \in Answered200 :
        /\ r # q
        /\ reqs[r].xid = reqs[q].xid
        /\ Len(ItemsOf(reqs[r].body)) >= 1

\* C8 (request-time query error): a request whose query failed is answered 500
\* with no body after a single query, and a request answered 200 had no
\* failing query.
C8_QueryErrorSurfaced ==
    \A r \in Requests :
        reqs[r].state = "done" =>
            /\ reqs[r].queries = 1
            /\ reqs[r].failed => (reqs[r].status = 500 /\ reqs[r].body = NoBody)
            /\ reqs[r].status = 200 => ~reqs[r].failed

C8_Witness ==
    \E r \in Requests :
        reqs[r].state = "done" /\ reqs[r].failed /\ reqs[r].status = 500

\* C9 (startup ordering): a process issues connect, CREATE TABLE, INSERT and
\* serve in this order and each at most once, stops at the first that fails,
\* serves only after all succeeded, and handling requests issues none of them.
C9_StartupOrder ==
    /\ Len(log) <= Len(StartupOrder)
    /\ \A i \in 1 .. Len(log) :
          /\ log[i].op = StartupOrder[i].op
          /\ i < Len(log) => log[i].err = None
    /\ (Len(log) >= 1 /\ Last(log).err # None) => pc = "crashed"
    /\ pc = "serving" =>
          /\ log = StartupOrder
          /\ "users" \in tables
          /\ SeedRows >= 1

C9_Witness ==
    /\ pc = "serving"
    /\ log = StartupOrder
    /\ \A r \in Requests : reqs[r].state = "done" /\ reqs[r].by = starts

\* C10 (seed on every start): once k process starts have run their startup,
\* none of them stopped by the environment, the table holds k seed rows.
C10_SeedOnEveryStart ==
    (faults = 0 /\ pc \in {"serving", "stopped", "crashed"}) => SeedRows = starts

====
